---- MODULE Spec2Model ----
(***************************************************************************)
(* Verification model of the modular-integer ring of algebraics            *)
(* (src/src/mod_int.rs): the ModularReduce implementation generated by     *)
(* impl_int_modulus! for the fixed-width integer types, and the            *)
(* ModularInteger<V, M> value type with its operator implementations.      *)
(*                                                                         *)
(* A ModularInteger is the record [value, modulus].  The machine holds two *)
(* of them (lhs, rhs) of one value type ty and applies the operator        *)
(* implementations of the source to them.  Every call records what it      *)
(* returned (or the panic it raised) in out, and the left operand as it    *)
(* was before the call in pre; op names the call and its integer argument. *)
(*                                                                         *)
(* The second half models the dyadic interval engine                       *)
(* (src/src/interval_arithmetic.rs) on the same variables: there lhs, rhs  *)
(* and pre hold DyadicFractionInterval records and op.arg is the tuple of  *)
(* the scalar arguments of the call.                                       *)
(***************************************************************************)
EXTENDS Integers, FiniteSets, Sequences, TLC

VARIABLES ty, lhs, rhs, pre, op, out

vars == <<ty, lhs, rhs, pre, op, out>>

---------------------------------------------------------------------------
(* Bounds of the model.                                                    *)

\* moduli 0..MaxModulus are enumerated by Init
MaxModulus == 6
\* constructor inputs v with |v| <= MaxInput (and the extremes of the type)
MaxInput == 3
\* InitOverflow takes the moduli from LargestPrime(t) - ModSpan upwards
ModSpan == 2

---------------------------------------------------------------------------
(* The fixed-width value types: impl_prim_int_modulus!(i8, i16, ...) and   *)
(* impl_prim_int_modulus!(u8, u16, ...).  The wider instantiations follow  *)
(* the same macro with the same doubling of the width.                     *)

Types == {"i8", "u8"}

Signed(t) == t = "i8"

Bits == 8

RECURSIVE Pow2(_)
Pow2(n) == IF n = 0 THEN 1 ELSE 2 * Pow2(n - 1)

TMin(t) == IF Signed(t) THEN -Pow2(Bits - 1) ELSE 0
TMax(t) == IF Signed(t) THEN Pow2(Bits - 1) - 1 ELSE Pow2(Bits) - 1

\* an intermediate type no wider than the value type
NarrowBits(t) == Bits

\* width of the intermediate type $wide: i16 for i8, u16 for u8
WideBits(t) == 2 * Bits

WMin(t) == IF Signed(t) THEN -Pow2(WideBits(t) - 1) ELSE 0
WMax(t) == IF Signed(t) THEN Pow2(WideBits(t) - 1) - 1 ELSE Pow2(WideBits(t)) - 1

\* test_overflow: the residues within 5 of 0 and within 5 of the modulus
Near == 5

\* test_overflow: the biggest prime that fits in the type
LargestPrime(t) == IF Signed(t) THEN 127 ELSE 251

---------------------------------------------------------------------------
(* Machine arithmetic.                                                     *)

Ok(x) == [ok |-> TRUE, v |-> x, msg |-> ""]
Fault(m) == [ok |-> FALSE, v |-> 0, msg |-> m]

Abs(x) == IF x < 0 THEN -x ELSE x

\* Rust's / on integers: the quotient truncated toward zero (b # 0)
quot(a, b) ==
    LET q == Abs(a) \div Abs(b)
    IN  IF (a < 0) = (b < 0) THEN q ELSE -q

\* Rust's % on integers: the remainder has the sign of the dividend (b # 0)
rem(a, b) == a - b * quot(a, b)

\* the truncated remainder in place of the floored one
TruncRem(a, b) == rem(a, b)

\* num_integer::Integer::mod_floor
mod_floor(a, b) ==
    LET r == rem(a, b)
    IN  IF (r > 0 /\ b < 0) \/ (r < 0 /\ b > 0) THEN r + b ELSE r

\* two's-complement wrap of x into lo..hi
wrap(lo, hi, x) == lo + ((x - lo) % (hi - lo + 1))

\* +, -, * on a primitive type with range lo..hi: exact while the result
\* fits; otherwise a panic where overflow checks are compiled in (oc) and a
\* wrapped value where they are not.
Arith(lo, hi, x, oc) ==
    IF x >= lo /\ x <= hi THEN Ok(x)
    ELSE IF oc THEN Fault("arithmetic overflow")
    ELSE Ok(wrap(lo, hi, x))

\* $to_wide: i16::from / u16::from, lossless
to_wide(t, x) == x

\* $from_wide: convert_to = try_into().unwrap()
from_wide(t, w) ==
    IF w >= TMin(t) /\ w <= TMax(t) THEN Ok(w)
    ELSE Fault("unwrap on TryFromIntError")

\* wide %= modulus
wide_rem(w, m) ==
    IF m = 0 THEN Fault("attempt to calculate the remainder with a divisor of zero")
    ELSE Ok(rem(w, m))

---------------------------------------------------------------------------
(* impl ModularReduce for $t (impl_int_modulus!).                          *)

modular_reduce_assign(t, self, modulus) ==
    IF modulus # 0 THEN mod_floor(self, modulus) ELSE self

modular_reduce(t, self, modulus) ==
    IF modulus # 0 THEN mod_floor(self, modulus) ELSE self

modular_add_ref_assign(t, self, rhs_, modulus, oc) ==
    LET wide == Arith(WMin(t), WMax(t), to_wide(t, self) + to_wide(t, rhs_), oc)
        red  == IF wide.ok THEN wide_rem(wide.v, to_wide(t, modulus)) ELSE wide
    IN  IF red.ok THEN from_wide(t, red.v) ELSE red

\* modular_neg_assign without the test for a result equal to the modulus
NegNoZeroCheck(t, self, modulus, oc) ==
    Arith(TMin(t), TMax(t), modulus - self, oc)

modular_neg_assign(t, self, modulus, oc) ==
    LET d == Arith(TMin(t), TMax(t), modulus - self, oc)
    IN  IF d.ok /\ d.v = modulus THEN Ok(0) ELSE d

modular_mul_ref_assign(t, self, rhs_, modulus, oc) ==
    LET wide == Arith(WMin(t), WMax(t), to_wide(t, self) * to_wide(t, rhs_), oc)
        red  == IF wide.ok THEN wide_rem(wide.v, to_wide(t, modulus)) ELSE wide
    IN  IF red.ok THEN from_wide(t, red.v) ELSE red

---------------------------------------------------------------------------
(* Provided methods of trait ModularReduce.  A method returns Ok(v), the   *)
(* new value, or the Fault it panicked with.                               *)

modular_add_move_assign(t, self, rhs_, modulus, oc) ==
    modular_add_ref_assign(t, self, rhs_, modulus, oc)

modular_add_move_ref(t, self, rhs_, modulus, oc) ==
    modular_add_ref_assign(t, self, rhs_, modulus, oc)

\* self.clone().modular_add_move_ref(rhs, modulus)
modular_add_ref_ref(t, self, rhs_, modulus, oc) ==
    modular_add_move_ref(t, self, rhs_, modulus, oc)

modular_add_move_move(t, self, rhs_, modulus, oc) ==
    modular_add_move_assign(t, self, rhs_, modulus, oc)

\* self.clone().modular_add_move_move(rhs, modulus)
modular_add_ref_move(t, self, rhs_, modulus, oc) ==
    modular_add_move_move(t, self, rhs_, modulus, oc)

modular_neg_move(t, self, modulus, oc) ==
    modular_neg_assign(t, self, modulus, oc)

\* self.clone().modular_neg_move(modulus)
modular_neg_ref(t, self, modulus, oc) ==
    modular_neg_move(t, self, modulus, oc)

\* self.modular_add_move_assign(rhs.modular_neg_ref(&modulus), modulus)
modular_sub_ref_assign(t, self, rhs_, modulus, oc) ==
    LET n == modular_neg_ref(t, rhs_, modulus, oc)
    IN  IF n.ok THEN modular_add_move_assign(t, self, n.v, modulus, oc) ELSE n

modular_sub_move_assign(t, self, rhs_, modulus, oc) ==
    modular_sub_ref_assign(t, self, rhs_, modulus, oc)

modular_sub_move_ref(t, self, rhs_, modulus, oc) ==
    modular_sub_ref_assign(t, self, rhs_, modulus, oc)

\* self.clone().modular_sub_move_ref(rhs, modulus)
modular_sub_ref_ref(t, self, rhs_, modulus, oc) ==
    modular_sub_move_ref(t, self, rhs_, modulus, oc)

modular_sub_move_move(t, self, rhs_, modulus, oc) ==
    modular_sub_move_assign(t, self, rhs_, modulus, oc)

\* a subtraction into the owned right operand: rhs - self
SubRefMoveSwapped(t, self, rhs_, modulus, oc) ==
    modular_sub_move_move(t, rhs_, self, modulus, oc)

\* self.clone().modular_sub_move_move(rhs, modulus)
modular_sub_ref_move(t, self, rhs_, modulus, oc) ==
    modular_sub_move_move(t, self, rhs_, modulus, oc)

modular_mul_move_assign(t, self, rhs_, modulus, oc) ==
    modular_mul_ref_assign(t, self, rhs_, modulus, oc)

modular_mul_move_ref(t, self, rhs_, modulus, oc) ==
    modular_mul_ref_assign(t, self, rhs_, modulus, oc)

\* self.clone().modular_mul_move_ref(rhs, modulus)
modular_mul_ref_ref(t, self, rhs_, modulus, oc) ==
    modular_mul_move_ref(t, self, rhs_, modulus, oc)

modular_mul_move_move(t, self, rhs_, modulus, oc) ==
    modular_mul_move_assign(t, self, rhs_, modulus, oc)

\* self.clone().modular_mul_move_move(rhs, modulus)
modular_mul_ref_move(t, self, rhs_, modulus, oc) ==
    modular_mul_move_move(t, self, rhs_, modulus, oc)

---------------------------------------------------------------------------
(* struct ModularInteger<V, M> { value, modulus } and what a call yields:  *)
(* [self |-> the left operand after the call, out |-> what was returned].  *)

MI(v, m) == [value |-> v, modulus |-> m]

NoValue == MI(0, 0)

Return(x) == [kind |-> "Return", value |-> x, msg |-> ""]
Some(x) == [kind |-> "Some", value |-> x, msg |-> ""]
None == [kind |-> "None", value |-> NoValue, msg |-> ""]
Unit == [kind |-> "Unit", value |-> NoValue, msg |-> ""]
Panic(m) == [kind |-> "Panic", value |-> NoValue, msg |-> m]

has_matching_moduli(self, rhs_) == self.modulus = rhs_.modulus

\* assert!(self.has_matching_moduli(rhs), "moduli don't match"): TRUE when
\* the assertion passes
NoCheck(self, rhs_) == TRUE
require_matching_moduli(self, rhs_) == has_matching_moduli(self, rhs_)

MismatchPanic(self) == [self |-> self, out |-> Panic("moduli don't match")]

\* ModularInteger { value: <r>, modulus: self.modulus }, returned
Returned(self, r) ==
    [self |-> self,
     out  |-> IF r.ok THEN Return(MI(r.v, self.modulus)) ELSE Panic(r.msg)]

\* self.value.modular_*_assign(..): self.value is written when the call returns
Assigned(self, r) ==
    IF r.ok THEN [self |-> MI(r.v, self.modulus), out |-> Unit]
    ELSE [self |-> self, out |-> Panic(r.msg)]

\* Some(ModularInteger { value: <r>, modulus: self.modulus.clone() })
ReturnedSome(self, r) ==
    [self |-> self,
     out  |-> IF r.ok THEN Some(MI(r.v, self.modulus)) ELSE Panic(r.msg)]

new(t, value, modulus) == MI(modular_reduce(t, value, modulus), modulus)

(* Add, AddAssign, CheckedAdd *)

add(t, self, rhs_, oc) ==
    IF ~require_matching_moduli(self, rhs_) THEN MismatchPanic(self)
    ELSE Returned(self, modular_add_move_move(t, self.value, rhs_.value, self.modulus, oc))

add_assign(t, self, rhs_, oc) ==
    IF ~require_matching_moduli(self, rhs_) THEN MismatchPanic(self)
    ELSE Assigned(self, modular_add_move_assign(t, self.value, rhs_.value, self.modulus, oc))

add_assign_ref(t, self, rhs_, oc) ==
    IF ~require_matching_moduli(self, rhs_) THEN MismatchPanic(self)
    ELSE Assigned(self, modular_add_ref_assign(t, self.value, rhs_.value, self.modulus, oc))

add_move_ref(t, self, rhs_, oc) ==
    IF ~require_matching_moduli(self, rhs_) THEN MismatchPanic(self)
    ELSE Returned(self, modular_add_move_ref(t, self.value, rhs_.value, self.modulus, oc))

add_ref_move(t, self, rhs_, oc) ==
    IF ~require_matching_moduli(self, rhs_) THEN MismatchPanic(self)
    ELSE Returned(self, modular_add_ref_move(t, self.value, rhs_.value, self.modulus, oc))

add_ref_ref(t, self, rhs_, oc) ==
    IF ~require_matching_moduli(self, rhs_) THEN MismatchPanic(self)
    ELSE Returned(self, modular_add_ref_ref(t, self.value, rhs_.value, self.modulus, oc))

checked_add(t, self, rhs_, oc) ==
    IF ~has_matching_moduli(self, rhs_) THEN [self |-> self, out |-> None]
    ELSE ReturnedSome(self, modular_add_ref_ref(t, self.value, rhs_.value, self.modulus, oc))

(* neg_assign, Neg *)

neg_assign(t, self, oc) ==
    Assigned(self, modular_neg_assign(t, self.value, self.modulus, oc))

neg(t, self, oc) ==
    Returned(self, modular_neg_move(t, self.value, self.modulus, oc))

neg_ref(t, self, oc) ==
    Returned(self, modular_neg_ref(t, self.value, self.modulus, oc))

(* Sub, SubAssign, CheckedSub *)

sub(t, self, rhs_, oc) ==
    IF ~require_matching_moduli(self, rhs_) THEN MismatchPanic(self)
    ELSE Returned(self, modular_sub_move_move(t, self.value, rhs_.value, self.modulus, oc))

sub_assign(t, self, rhs_, oc) ==
    IF ~require_matching_moduli(self, rhs_) THEN MismatchPanic(self)
    ELSE Assigned(self, modular_sub_move_assign(t, self.value, rhs_.value, self.modulus, oc))

sub_assign_ref(t, self, rhs_, oc) ==
    IF ~require_matching_moduli(self, rhs_) THEN MismatchPanic(self)
    ELSE Assigned(self, modular_sub_ref_assign(t, self.value, rhs_.value, self.modulus, oc))

sub_move_ref(t, self, rhs_, oc) ==
    IF ~require_matching_moduli(self, rhs_) THEN MismatchPanic(self)
    ELSE Returned(self, modular_sub_move_ref(t, self.value, rhs_.value, self.modulus, oc))

sub_ref_move(t, self, rhs_, oc) ==
    IF ~require_matching_moduli(self, rhs_) THEN MismatchPanic(self)
    ELSE Returned(self, modular_sub_ref_move(t, self.value, rhs_.value, self.modulus, oc))

sub_ref_ref(t, self, rhs_, oc) ==
    IF ~require_matching_moduli(self, rhs_) THEN MismatchPanic(self)
    ELSE Returned(self, modular_sub_ref_ref(t, self.value, rhs_.value, self.modulus, oc))

checked_sub(t, self, rhs_, oc) ==
    IF ~has_matching_moduli(self, rhs_) THEN [self |-> self, out |-> None]
    ELSE ReturnedSome(self, modular_sub_ref_ref(t, self.value, rhs_.value, self.modulus, oc))

(* Mul, MulAssign, CheckedMul *)

mul(t, self, rhs_, oc) ==
    IF ~require_matching_moduli(self, rhs_) THEN MismatchPanic(self)
    ELSE Returned(self, modular_mul_move_move(t, self.value, rhs_.value, self.modulus, oc))

mul_assign(t, self, rhs_, oc) ==
    IF ~require_matching_moduli(self, rhs_) THEN MismatchPanic(self)
    ELSE Assigned(self, modular_mul_move_assign(t, self.value, rhs_.value, self.modulus, oc))

mul_assign_ref(t, self, rhs_, oc) ==
    IF ~require_matching_moduli(self, rhs_) THEN MismatchPanic(self)
    ELSE Assigned(self, modular_mul_ref_assign(t, self.value, rhs_.value, self.modulus, oc))

mul_move_ref(t, self, rhs_, oc) ==
    IF ~require_matching_moduli(self, rhs_) THEN MismatchPanic(self)
    ELSE Returned(self, modular_mul_move_ref(t, self.value, rhs_.value, self.modulus, oc))

mul_ref_move(t, self, rhs_, oc) ==
    IF ~require_matching_moduli(self, rhs_) THEN MismatchPanic(self)
    ELSE Returned(self, modular_mul_ref_move(t, self.value, rhs_.value, self.modulus, oc))

mul_ref_ref(t, self, rhs_, oc) ==
    IF ~require_matching_moduli(self, rhs_) THEN MismatchPanic(self)
    ELSE Returned(self, modular_mul_ref_ref(t, self.value, rhs_.value, self.modulus, oc))

checked_mul(t, self, rhs_, oc) ==
    IF ~has_matching_moduli(self, rhs_) THEN [self |-> self, out |-> None]
    ELSE ReturnedSome(self, modular_mul_ref_ref(t, self.value, rhs_.value, self.modulus, oc))

---------------------------------------------------------------------------
(* Inversion and division.                                                 *)

\* crate::traits::ExtendedGCD: the extended Euclidean algorithm, yielding
\* gcd >= 0 and the coefficient x with x * self + y * other = gcd
RECURSIVE egcd_loop(_, _, _, _)
egcd_loop(r0, r1, s0, s1) ==
    IF r0 = 0 THEN [gcd |-> r1, x |-> s1]
    ELSE LET q == quot(r1, r0)
         IN  egcd_loop(r1 - q * r0, r0, s1 - q * s0, s0)

extended_gcd(self, other) ==
    LET e == egcd_loop(other, self, 0, 1)
    IN  IF e.gcd >= 0 THEN e ELSE [gcd |-> -e.gcd, x |-> -e.x]

\* checked_inverse without the early return for a zero value
InverseNoZeroCheck(t, self) ==
    LET e == extended_gcd(self.value, self.modulus)
    IN  [self |-> self,
         out  |-> IF e.gcd = 1 THEN Some(new(t, e.x, self.modulus)) ELSE None]

checked_inverse(t, self) ==
    IF self.value = 0 THEN [self |-> self, out |-> None]
    ELSE LET e == extended_gcd(self.value, self.modulus)
         IN  [self |-> self,
              out  |-> IF e.gcd = 1 THEN Some(new(t, e.x, self.modulus)) ELSE None]

inverse(t, self) ==
    LET c == checked_inverse(t, self).out
    IN  [self |-> self,
         out  |-> IF c.kind = "Some" THEN Return(c.value)
                  ELSE Panic("value has no modular inverse")]

div_assign(t, self, rhs_, oc) ==
    LET inv == inverse(t, rhs_).out
    IN  IF inv.kind = "Panic" THEN [self |-> self, out |-> inv]
        ELSE mul_assign(t, self, inv.value, oc)

div_assign_ref(t, self, rhs_, oc) ==
    LET inv == inverse(t, rhs_).out
    IN  IF inv.kind = "Panic" THEN [self |-> self, out |-> inv]
        ELSE mul_assign(t, self, inv.value, oc)

\* a division that answers zero for a zero dividend before inverting
DivZeroShortcut(t, self, rhs_, oc) ==
    IF self.value = 0 /\ has_matching_moduli(self, rhs_) THEN Returned(self, Ok(0))
    ELSE LET inv == inverse(t, rhs_).out
         IN  IF inv.kind = "Panic" THEN [self |-> self, out |-> inv]
             ELSE mul(t, self, inv.value, oc)

div(t, self, rhs_, oc) ==
    LET inv == inverse(t, rhs_).out
    IN  IF inv.kind = "Panic" THEN [self |-> self, out |-> inv]
        ELSE mul(t, self, inv.value, oc)

div_ref_move(t, self, rhs_, oc) ==
    LET inv == inverse(t, rhs_).out
    IN  IF inv.kind = "Panic" THEN [self |-> self, out |-> inv]
        ELSE mul_ref_ref(t, self, inv.value, oc)

div_move_ref(t, self, rhs_, oc) ==
    LET inv == inverse(t, rhs_).out
    IN  IF inv.kind = "Panic" THEN [self |-> self, out |-> inv]
        ELSE mul(t, self, inv.value, oc)

div_ref_ref(t, self, rhs_, oc) ==
    LET inv == inverse(t, rhs_).out
    IN  IF inv.kind = "Panic" THEN [self |-> self, out |-> inv]
        ELSE mul_ref_ref(t, self, inv.value, oc)

\* a checked_div that multiplies by the divisor instead of its inverse
CheckedDivNoInverse(t, self, rhs_, oc) ==
    LET inv == checked_inverse(t, rhs_).out
    IN  IF inv.kind = "None" THEN [self |-> self, out |-> None]
        ELSE checked_mul(t, self, rhs_, oc)

\* self.checked_mul(&rhs.checked_inverse()?)
checked_div(t, self, rhs_, oc) ==
    LET inv == checked_inverse(t, rhs_).out
    IN  IF inv.kind = "None" THEN [self |-> self, out |-> None]
        ELSE checked_mul(t, self, inv.value, oc)

\* impl_exact_div!: exact_div is self.div(rhs) for each pairing of an
\* owned or borrowed self with an owned or borrowed rhs
exact_div(t, self, rhs_, oc) == div(t, self, rhs_, oc)

exact_div_move_ref(t, self, rhs_, oc) == div_move_ref(t, self, rhs_, oc)

exact_div_ref_move(t, self, rhs_, oc) == div_ref_move(t, self, rhs_, oc)

exact_div_ref_ref(t, self, rhs_, oc) == div_ref_ref(t, self, rhs_, oc)

\* a checked_exact_div with its operands the wrong way round
ExactDivSwapped(t, self, rhs_, oc) ==
    [self |-> self, out |-> checked_div(t, rhs_, self, oc).out]

\* self.checked_div(rhs.borrow()), the same body in all four pairings
checked_exact_div(t, self, rhs_, oc) == checked_div(t, self, rhs_, oc)

\* (&*self).checked_exact_div(rhs).map(|v| *self = v).ok_or(()): Ok(()) with
\* self written, or Err(()) with self untouched
checked_exact_div_assign(t, self, rhs_, oc) ==
    LET r == checked_exact_div(t, self, rhs_, oc).out
    IN  IF r.kind = "Some"
        THEN [self |-> r.value, out |-> [kind |-> "Ok", value |-> NoValue, msg |-> ""]]
        ELSE IF r.kind = "None"
        THEN [self |-> self, out |-> [kind |-> "Err", value |-> NoValue, msg |-> ""]]
        ELSE [self |-> self, out |-> r]

---------------------------------------------------------------------------
(* impl ModularReducePow for $t (impl_prim_int_modulus!) and the           *)
(* PolynomialCoefficient method that calls it.                             *)

\* the loop of pow_modular_reduce, entered with the reduced base, the
\* exponent and retval (None until the first odd exponent bit)
RECURSIVE pow_loop(_, _, _, _, _, _)
pow_loop(t, base, exponent, retval, modulus, oc) ==
    LET odd == rem(exponent, 2) # 0
        prod == IF odd /\ retval.kind = "Some"
               THEN modular_mul_move_assign(t, retval.value, base, modulus, oc)
               ELSE Ok(base)
        retval1 == IF odd THEN Some(prod.v) ELSE retval
        exponent1 == quot(exponent, 2)
        sq == modular_mul_move_assign(t, base, base, modulus, oc)
    IN  IF ~prod.ok THEN prod
        ELSE IF exponent1 = 0
        THEN IF retval1.kind = "Some" THEN Ok(retval1.value)
             ELSE Fault("internal error: entered unreachable code")
        ELSE IF ~sq.ok THEN sq
        ELSE pow_loop(t, sq.v, exponent1, retval1, modulus, oc)

\* a pow_modular_reduce that leaves the base as it was handed in
PowNoReduce(t, self, exponent, modulus, oc) ==
    IF exponent = 0 THEN Ok(1)
    ELSE IF exponent = 1 THEN Ok(self)
    ELSE pow_loop(t, self, exponent, None, modulus, oc)

pow_modular_reduce(t, self, exponent, modulus, oc) ==
    IF exponent = 0 THEN Ok(1)
    ELSE LET base == modular_reduce_assign(t, self, modulus)
         IN  IF exponent = 1 THEN Ok(base)
             ELSE pow_loop(t, base, exponent, None, modulus, oc)

\* PolynomialCoefficient::element_pow_usize
element_pow_usize(t, base, exponent, oc) ==
    Returned(base, pow_modular_reduce(t, base.value, exponent, base.modulus, oc))

---------------------------------------------------------------------------
(* Reduction of an integer of another type, and the PolynomialCoefficient  *)
(* methods that multiply an element by a usize.                            *)

\* a conversion of the multiplier that does not reduce it first
FromBigintNoReduce(t, v, modulus) ==
    IF v >= TMin(t) /\ v <= TMax(t) THEN Ok(v)
    ELSE Fault("to_primitive failed")

\* v.mod_floor(&modulus.into()).$from_bigint().expect(..)
modular_reduce_from_bigint(t, v, modulus) ==
    IF modulus = 0 THEN Fault("attempt to divide by zero")
    ELSE LET r == mod_floor(v, modulus)
         IN  IF r >= TMin(t) /\ r <= TMax(t) THEN Ok(r)
             ELSE Fault("to_primitive failed")

\* v as u128, into BigUint, into BigInt: all lossless for a usize
modular_reduce_from_usize(t, v, modulus) ==
    modular_reduce_from_bigint(t, v, modulus)

mul_assign_element_by_usize(t, element, multiplier, oc) ==
    LET k == modular_reduce_from_usize(t, multiplier, element.modulus)
    IN  Assigned(element,
                 IF k.ok
                 THEN modular_mul_move_assign(t, element.value, k.v, element.modulus, oc)
                 ELSE k)

\* element.into_owned(), multiplied in place and returned
mul_element_by_usize(t, element, multiplier, oc) ==
    LET r == mul_assign_element_by_usize(t, element, multiplier, oc)
    IN  [self |-> element,
         out  |-> IF r.out.kind = "Panic" THEN r.out ELSE Return(r.self)]

---------------------------------------------------------------------------
(* The element constructors and tests of PolynomialCoefficient.            *)

\* Self::new(V::one(), modulus) with the modulus of the element
make_one_element(t, element) == new(t, 1, element.modulus)

\* element.value.is_one()
is_element_one(element) == element.value = 1

---------------------------------------------------------------------------
(* The divisor side of PolynomialCoefficient for ModularInteger.           *)

\* crate::polynomial::DivisorIsOne: a type with the one value One::one()
DivisorIsOne == "DivisorIsOne"

\* a conversion that hands back the zero of the coefficient's modulus
CoefficientZeroed(coefficient) ==
    <<MI(0, coefficient.modulus), DivisorIsOne>>

\* (coefficient.into_owned(), One::one())
coefficient_to_element(coefficient) == <<coefficient, DivisorIsOne>>

\* element.into_owned()
make_coefficient(element, _divisor) == element

---------------------------------------------------------------------------
(* The state machine.                                                      *)

Moduli == 0 .. MaxModulus

\* values handed to the constructor: those near zero and the extremes of
\* the type
Inputs(t) ==
    {v \in TMin(t) .. TMax(t) : Abs(v) <= MaxInput \/ v = TMin(t) \/ v = TMax(t)}

CallOf(name, arg) == [name |-> name, arg |-> arg]

Init ==
    /\ ty \in Types
    /\ \E v1 \in Inputs(ty), v2 \in Inputs(ty), m1 \in Moduli, m2 \in Moduli :
          /\ lhs = new(ty, v1, m1)
          /\ rhs = new(ty, v2, m2)
    /\ pre = lhs
    /\ op = CallOf("init", 0)
    /\ out = Unit

\* a call on lhs (and rhs): res is what the handler yields
Call(name, res) ==
    /\ pre' = lhs
    /\ lhs' = res.self
    /\ out' = res.out
    /\ op' = CallOf(name, 0)
    /\ UNCHANGED <<ty, rhs>>

\* let rhs = ModularInteger::new(v, m), before the arithmetic starts
New ==
    \E v \in Inputs(ty), m \in Moduli :
        /\ op.name = "init"
        /\ rhs' = new(ty, v, m)
        /\ out' = Return(rhs')
        /\ op' = CallOf("new", v)
        /\ pre' = lhs
        /\ UNCHANGED <<ty, lhs>>

\* let lhs = <the value the last call returned>
Bind ==
    /\ out.kind \in {"Return", "Some"}
    /\ op.name \notin {"new", "bind"}
    /\ lhs' = out.value
    /\ pre' = out.value
    /\ out' = Return(out.value)
    /\ op' = CallOf("bind", 0)
    /\ UNCHANGED <<ty, rhs>>

AddStep ==
    \E oc \in BOOLEAN :
        \/ Call("add_assign", add_assign(ty, lhs, rhs, oc))
        \/ Call("add_assign_ref", add_assign_ref(ty, lhs, rhs, oc))
        \/ Call("add", add(ty, lhs, rhs, oc))
        \/ Call("add_move_ref", add_move_ref(ty, lhs, rhs, oc))
        \/ Call("add_ref_move", add_ref_move(ty, lhs, rhs, oc))
        \/ Call("add_ref_ref", add_ref_ref(ty, lhs, rhs, oc))
        \/ Call("checked_add", checked_add(ty, lhs, rhs, oc))

NegStep ==
    \E oc \in BOOLEAN :
        \/ Call("neg_assign", neg_assign(ty, lhs, oc))
        \/ Call("neg", neg(ty, lhs, oc))
        \/ Call("neg_ref", neg_ref(ty, lhs, oc))

SubStep ==
    \E oc \in BOOLEAN :
        \/ Call("sub_assign", sub_assign(ty, lhs, rhs, oc))
        \/ Call("sub_assign_ref", sub_assign_ref(ty, lhs, rhs, oc))
        \/ Call("sub", sub(ty, lhs, rhs, oc))
        \/ Call("sub_move_ref", sub_move_ref(ty, lhs, rhs, oc))
        \/ Call("sub_ref_move", sub_ref_move(ty, lhs, rhs, oc))
        \/ Call("sub_ref_ref", sub_ref_ref(ty, lhs, rhs, oc))
        \/ Call("checked_sub", checked_sub(ty, lhs, rhs, oc))

MulStep ==
    \E oc \in BOOLEAN :
        \/ Call("mul_assign", mul_assign(ty, lhs, rhs, oc))
        \/ Call("mul_assign_ref", mul_assign_ref(ty, lhs, rhs, oc))
        \/ Call("mul", mul(ty, lhs, rhs, oc))
        \/ Call("mul_move_ref", mul_move_ref(ty, lhs, rhs, oc))
        \/ Call("mul_ref_move", mul_ref_move(ty, lhs, rhs, oc))
        \/ Call("mul_ref_ref", mul_ref_ref(ty, lhs, rhs, oc))
        \/ Call("checked_mul", checked_mul(ty, lhs, rhs, oc))

\* ExtendedGCD is needed: the signed value types
InvStep ==
    /\ Signed(ty)
    /\ \/ Call("checked_inverse", checked_inverse(ty, lhs))
       \/ Call("inverse", inverse(ty, lhs))

DivStep ==
    /\ Signed(ty)
    /\ \E oc \in BOOLEAN :
        \/ Call("div_assign", div_assign(ty, lhs, rhs, oc))
        \/ Call("div_assign_ref", div_assign_ref(ty, lhs, rhs, oc))
        \/ Call("div", div(ty, lhs, rhs, oc))
        \/ Call("div_move_ref", div_move_ref(ty, lhs, rhs, oc))
        \/ Call("div_ref_move", div_ref_move(ty, lhs, rhs, oc))
        \/ Call("div_ref_ref", div_ref_ref(ty, lhs, rhs, oc))
        \/ Call("checked_div", checked_div(ty, lhs, rhs, oc))

ExactDivStep ==
    /\ Signed(ty)
    /\ \E oc \in BOOLEAN :
        \/ Call("exact_div", exact_div(ty, lhs, rhs, oc))
        \/ Call("exact_div_move_ref", exact_div_move_ref(ty, lhs, rhs, oc))
        \/ Call("exact_div_ref_move", exact_div_ref_move(ty, lhs, rhs, oc))
        \/ Call("exact_div_ref_ref", exact_div_ref_ref(ty, lhs, rhs, oc))
        \/ Call("checked_exact_div", checked_exact_div(ty, lhs, rhs, oc))
        \/ Call("checked_exact_div_assign", checked_exact_div_assign(ty, lhs, rhs, oc))

Next ==
    \/ New
    \/ Bind
    \/ AddStep
    \/ NegStep
    \/ SubStep
    \/ MulStep
    \/ InvStep
    \/ DivStep
    \/ ExactDivStep

Spec == Init /\ [][Next]_vars

\* test_overflow_for_type: equal moduli at the top of the type's range, and
\* the residues index_to_t yields (within Near of 0 and of the modulus)
OverflowModuli(t) == (LargestPrime(t) - ModSpan) .. TMax(t)

NearResidues(m) == {v \in 0 .. (m - 1) : v <= Near \/ v >= m - Near}

InitOverflow ==
    /\ ty \in Types
    /\ \E m \in OverflowModuli(ty) :
          \E a \in NearResidues(m), b \in NearResidues(m) :
              /\ lhs = new(ty, a, m)
              /\ rhs = new(ty, b, m)
    /\ pre = lhs
    /\ op = CallOf("init", 0)
    /\ out = Unit

\* one operator applied to the freshly built pair
NextOverflow ==
    \/ op.name = "init" /\ AddStep
    \/ op.name = "init" /\ NegStep
    \/ op.name = "init" /\ SubStep
    \/ op.name = "init" /\ MulStep

SpecOverflow == InitOverflow /\ [][NextOverflow]_vars

---------------------------------------------------------------------------
(* Exponentiation on its own: a base and an exponent handed to             *)
(* pow_modular_reduce and to element_pow_usize, for the small moduli and   *)
(* for those at the top of the type's range.                               *)

MaxExponent == 5

PowModuli(t) == Moduli \cup OverflowModuli(t)

\* any value of the type may be the base: the small ones, the extremes and
\* the residues next to the modulus
PowBases(t, m) == Inputs(t) \cup NearResidues(m)

InitPow ==
    /\ ty \in Types
    /\ \E m \in PowModuli(ty) : \E v \in PowBases(ty, m) : lhs = new(ty, v, m)
    /\ rhs = lhs
    /\ pre = lhs
    /\ op = [name |-> "init", arg |-> 0, base |-> 0]
    /\ out = Unit

\* value.pow_modular_reduce(&exponent, &modulus) on a value of the type
PowModularReduce ==
    \E b \in PowBases(ty, lhs.modulus), e \in 0 .. MaxExponent, oc \in BOOLEAN :
        LET r == pow_modular_reduce(ty, b, e, lhs.modulus, oc)
        IN  /\ op.name = "init"
            /\ op' = [name |-> "pow_modular_reduce", arg |-> e, base |-> b]
            /\ out' = IF r.ok THEN Return(r.v) ELSE Panic(r.msg)
            /\ pre' = lhs
            /\ UNCHANGED <<ty, lhs, rhs>>

ElementPow ==
    \E e \in 0 .. MaxExponent, oc \in BOOLEAN :
        LET r == element_pow_usize(ty, lhs, e, oc)
        IN  /\ op.name = "init"
            /\ op' = [name |-> "element_pow_usize", arg |-> e, base |-> lhs.value]
            /\ out' = r.out
            /\ pre' = lhs
            /\ lhs' = r.self
            /\ UNCHANGED <<ty, rhs>>

\* the multipliers are the small ones, those around the greatest value of
\* the element type, and one beyond the wide type
MulByUsize ==
    \E k \in (0 .. MaxExponent) \cup ((TMax(ty) - ModSpan) .. (TMax(ty) + ModSpan))
                \cup {Pow2(WideBits(ty))},
       oc \in BOOLEAN :
        /\ op.name = "init"
        /\ \/ LET r == mul_element_by_usize(ty, lhs, k, oc)
              IN  /\ op' = [name |-> "mul_element_by_usize", arg |-> k,
                            base |-> lhs.value]
                  /\ out' = r.out
                  /\ lhs' = r.self
           \/ LET r == mul_assign_element_by_usize(ty, lhs, k, oc)
              IN  /\ op' = [name |-> "mul_assign_element_by_usize", arg |-> k,
                            base |-> lhs.value]
                  /\ out' = r.out
                  /\ lhs' = r.self
        /\ pre' = lhs
        /\ UNCHANGED <<ty, rhs>>

\* the methods that carry a divisor, called on the element lhs, on the
\* slice [lhs, rhs] and on the only divisor there is
AdapterStep ==
    /\ op.name = "init"
    /\ \E name \in {"coefficient_to_element", "coefficients_to_elements",
                     "get_reduced_divisor", "reduce_divisor", "make_coefficient",
                     "divisor_pow_usize", "make_coefficient_of_element"},
          e \in 0 .. MaxExponent :
          /\ op' = [name |-> name, arg |-> e, base |-> lhs.value]
          /\ out' = IF name = "coefficient_to_element"
                    THEN Return(coefficient_to_element(lhs))
                    ELSE IF name = "coefficients_to_elements"
                    THEN Return(<<(<<lhs, rhs>>), DivisorIsOne>>)
                    ELSE IF name = "get_reduced_divisor"
                    THEN Return(<<(<<lhs, rhs>>), DivisorIsOne>>)
                    ELSE IF name = "reduce_divisor" THEN Unit
                    ELSE IF name = "make_coefficient"
                    THEN Return(make_coefficient(lhs, DivisorIsOne))
                    ELSE IF name = "divisor_pow_usize" THEN Return(DivisorIsOne)
                    ELSE LET pair == coefficient_to_element(lhs)
                         IN  Return(make_coefficient(pair[1], pair[2]))
    /\ pre' = lhs
    /\ UNCHANGED <<ty, lhs, rhs>>

\* make_zero_element, make_one_element, set_element_one and negate_element
\* on the element lhs
ElementStep ==
    /\ op.name = "init"
    /\ \/ /\ op' = [name |-> "make_zero_element", arg |-> 0, base |-> lhs.value]
          /\ out' = Return(new(ty, 0, lhs.modulus))
          /\ lhs' = lhs
       \/ /\ op' = [name |-> "make_one_element", arg |-> 0, base |-> lhs.value]
          /\ out' = Return(make_one_element(ty, lhs))
          /\ lhs' = lhs
       \/ /\ op' = [name |-> "set_element_one", arg |-> 0, base |-> lhs.value]
          /\ out' = Unit
          /\ lhs' = MI(modular_reduce(ty, 1, lhs.modulus), lhs.modulus)
       \/ \E oc \in BOOLEAN :
            LET r == neg_assign(ty, lhs, oc)
            IN  /\ op' = [name |-> "negate_element", arg |-> 0, base |-> lhs.value]
                /\ out' = r.out
                /\ lhs' = r.self
    /\ pre' = lhs
    /\ UNCHANGED <<ty, rhs>>

NextPow ==
    \/ PowModularReduce
    \/ ElementPow
    \/ MulByUsize
    \/ AdapterStep
    \/ ElementStep

SpecPow == InitPow /\ [][NextPow]_vars

---------------------------------------------------------------------------
(* Properties.                                                             *)

AddForms ==
    {"add_assign", "add_assign_ref", "add", "add_move_ref", "add_ref_move", "add_ref_ref"}
SubForms ==
    {"sub_assign", "sub_assign_ref", "sub", "sub_move_ref", "sub_ref_move", "sub_ref_ref"}
MulForms ==
    {"mul_assign", "mul_assign_ref", "mul", "mul_move_ref", "mul_ref_move", "mul_ref_ref"}
DivForms ==
    {"div_assign", "div_assign_ref", "div", "div_move_ref", "div_ref_move", "div_ref_ref"}
NegForms == {"neg_assign", "neg", "neg_ref"}

\* the mathematical greatest common divisor of two naturals
RECURSIVE Gcd(_, _)
Gcd(a, b) == IF b = 0 THEN a ELSE Gcd(b, a % b)

Canonical(x) == x.modulus >= 1 => (0 <= x.value /\ x.value < x.modulus)

\* the value the last call produced: the left operand for an assigning form
Result == IF out.kind = "Unit" THEN lhs ELSE out.value

\* both operands of the last call were canonical residues of one modulus >= 1
SameModulus ==
    /\ pre.modulus >= 1
    /\ pre.modulus = rhs.modulus
    /\ Canonical(pre)
    /\ Canonical(rhs)

\* C1: for every modulus m >= 1, every value built by new and every value
\* produced from such values by +, -, *, unary -, inverse and division is the
\* canonical residue: 0 <= value < m.
C1_AlwaysCanonical ==
    /\ Canonical(lhs)
    /\ Canonical(rhs)
    /\ Canonical(pre)
    /\ out.kind \in {"Return", "Some"} => Canonical(out.value)

\* a negation of a nonzero residue followed by further arithmetic on it
C1_Witness ==
    /\ op.name = "div_assign"
    /\ out.kind = "Unit"
    /\ lhs.modulus = 5
    /\ rhs.value = 3
    /\ pre.value = 4
    /\ lhs.value = 3

\* C2: on canonical residues a, b of one modulus m >= 1 at the top of the
\* value type's range, a + b, a - b, a * b and -a return the residue computed
\* with unbounded integers, and neither the widened sum or product nor the
\* narrowing back faults.
C2_OverflowSafe ==
    SameModulus =>
        LET m == pre.modulus
            a == pre.value
            b == rhs.value
        IN  /\ op.name \in AddForms \cup SubForms \cup MulForms \cup NegForms
                  => out.kind \in {"Unit", "Return"}
            /\ op.name \in AddForms => Result = MI((a + b) % m, m)
            /\ op.name \in SubForms => Result = MI((a - b) % m, m)
            /\ op.name \in MulForms => Result = MI((a * b) % m, m)
            /\ op.name \in NegForms => Result = MI((m - a) % m, m)

\* 250 * 250 modulo 251, the largest prime of u8: the product needs 16 bits
C2_Witness ==
    /\ ty = "u8"
    /\ op.name = "mul_assign"
    /\ pre = MI(250, 251)
    /\ rhs = MI(250, 251)
    /\ lhs = MI(1, 251)

\* C3 as stated: on residues a, b of a modulus m, checked_div(a, b) is
\* non-empty iff gcd(b, m) = 1, and a non-empty quotient q has q * b = a mod m.
C3_AsStated ==
    (op.name = "checked_div" /\ SameModulus) =>
        /\ (out.kind = "Some") <=> (Gcd(rhs.value, rhs.modulus) = 1)
        /\ out.kind = "Some" =>
              (out.value.value * rhs.value) % rhs.modulus = pre.value

\* C3, amended: checked_div(a, b) is non-empty iff b # 0 and gcd(b, m) = 1
\* (modulo 1 the divisor 0 has gcd 1 with the modulus and still yields None),
\* it is None otherwise, and a non-empty quotient q has q * b = a mod m.
C3_DivisionConsistent ==
    (op.name = "checked_div" /\ SameModulus) =>
        /\ out.kind \in {"Some", "None"}
        /\ (out.kind = "Some") <=>
              (rhs.value # 0 /\ Gcd(rhs.value, rhs.modulus) = 1)
        /\ out.kind = "Some" =>
              /\ out.value.modulus = rhs.modulus
              /\ (out.value.value * rhs.value) % rhs.modulus = pre.value

\* 2 / 4 = 5 modulo 9 cannot be reached with moduli up to 6: 2 / 5 = 4 mod 6
C3_Witness ==
    /\ op.name = "checked_div"
    /\ pre = MI(2, 6)
    /\ rhs = MI(5, 6)
    /\ out = Some(MI(4, 6))

\* C4: on a residue x of a modulus m >= 1, checked_inverse is None when
\* x = 0 (also for m = 1) or gcd(x, m) # 1, and otherwise Some(y) with y
\* canonical and x * y = 1 mod m; inverse panics exactly where
\* checked_inverse is None and returns that y otherwise.
C4_Inverse ==
    (pre.modulus >= 1 /\ Canonical(pre)) =>
        LET x == pre.value
            m == pre.modulus
            none == x = 0 \/ Gcd(x, m) # 1
        IN  /\ op.name = "checked_inverse" =>
                  /\ none => out = None
                  /\ ~none =>
                        /\ out.kind = "Some"
                        /\ out.value.modulus = m
                        /\ Canonical(out.value)
                        /\ (x * out.value.value) % m = 1 % m
            /\ op.name = "inverse" =>
                  /\ (out.kind = "Panic") <=> none
                  /\ out.kind = "Panic" => out.msg = "value has no modular inverse"
                  /\ ~none =>
                        /\ out.kind = "Return"
                        /\ Canonical(out.value)
                        /\ (x * out.value.value) % m = 1 % m

\* the only residue modulo 1 has no inverse
C4_Witness ==
    /\ op.name = "checked_inverse"
    /\ pre = MI(0, 1)
    /\ out = None

\* C5 as stated: with modulus 0 the sum, difference and product of a and b,
\* when they fit the value type, are new(a + b, 0), new(a - b, 0) and
\* new(a * b, 0), and the call does not panic.
C5_ZeroModulusRing ==
    (pre.modulus = 0 /\ rhs.modulus = 0) =>
        LET a == pre.value
            b == rhs.value
            fits(x) == x >= TMin(ty) /\ x <= TMax(ty)
        IN  /\ (op.name \in AddForms /\ fits(a + b)) =>
                  (out.kind # "Panic" /\ Result = new(ty, a + b, 0))
            /\ (op.name \in SubForms /\ fits(a - b)) =>
                  (out.kind # "Panic" /\ Result = new(ty, a - b, 0))
            /\ (op.name \in MulForms /\ fits(a * b)) =>
                  (out.kind # "Panic" /\ Result = new(ty, a * b, 0))

\* C6: new(v, m) stores v itself when m = 0, and for m > 0 the r with
\* 0 <= r < m and r = v mod m, also for negative v and v >= m;
\* modular_reduce and modular_reduce_assign give the same value.
C6_NewReduces ==
    op.name = "new" =>
        LET v == op.arg
            m == rhs.modulus
            r == rhs.value
        IN  /\ m = 0 => r = v
            /\ m > 0 => (0 <= r /\ r < m /\ (v - r) % m = 0)
            /\ modular_reduce(ty, v, m) = r
            /\ modular_reduce_assign(ty, v, m) = r

\* a negative value reduced to a positive residue
C6_Witness ==
    /\ op.name = "new"
    /\ op.arg = -3
    /\ rhs = MI(2, 5)

\* C7: on a residue x of a modulus m >= 1 the negation is 0 when x = 0 and
\* m - x otherwise, and x + (-x) is the zero element of modulus m.
C7_Negation ==
    (op.name \in NegForms /\ pre.modulus >= 1 /\ Canonical(pre)) =>
        LET x == pre.value
            m == pre.modulus
        IN  /\ out.kind \in {"Unit", "Return"}
            /\ Result = MI(IF x = 0 THEN 0 ELSE m - x, m)
            /\ \A oc \in BOOLEAN : add(ty, pre, Result, oc).out = Return(MI(0, m))

\* the negation of zero is zero, not the modulus
C7_Witness ==
    /\ op.name = "neg"
    /\ pre = MI(0, 4)
    /\ out = Return(MI(0, 4))

\* C8: an unchecked +, -, * (operator or assigning form, owned or borrowed
\* operands) on operands of different moduli panics with "moduli don't
\* match", returns nothing and leaves the left operand as it was.
C8_MismatchPanics ==
    (op.name \in AddForms \cup SubForms \cup MulForms /\ pre.modulus # rhs.modulus) =>
        /\ out = Panic("moduli don't match")
        /\ lhs = pre

C8_Witness ==
    /\ op.name = "mul_assign_ref"
    /\ pre = MI(2, 3)
    /\ rhs = MI(2, 5)
    /\ out.kind = "Panic"

\* C9 as stated: checked_add, checked_sub, checked_mul and checked_div return
\* None, without a panic, when the moduli differ; when the moduli are equal,
\* checked_add, checked_sub and checked_mul return Some of the value the
\* unchecked operator returns.
C9_Checked ==
    /\ (op.name \in {"checked_add", "checked_sub", "checked_mul", "checked_div"}
          /\ pre.modulus # rhs.modulus) => out = None
    /\ pre.modulus = rhs.modulus =>
          \A oc \in BOOLEAN :
              /\ op.name = "checked_add" =>
                    (out.kind = "Some" /\ Return(out.value) = add(ty, pre, rhs, oc).out)
              /\ op.name = "checked_sub" =>
                    (out.kind = "Some" /\ Return(out.value) = sub(ty, pre, rhs, oc).out)
              /\ op.name = "checked_mul" =>
                    (out.kind = "Some" /\ Return(out.value) = mul(ty, pre, rhs, oc).out)

\* C10: with equal modulus m >= 1, a / b in every form panics exactly when
\* checked_div(a, b) is None, that is when b is 0 or shares a factor with m,
\* whatever a is; otherwise it yields the value of checked_div(a, b), the
\* product of a and the inverse of b.
C10_Division ==
    (op.name \in DivForms /\ SameModulus) =>
        LET m == pre.modulus
            noinv == rhs.value = 0 \/ Gcd(rhs.value, m) # 1
        IN  /\ (out.kind = "Panic") <=> noinv
            /\ out.kind = "Panic" =>
                  (out.msg = "value has no modular inverse" /\ lhs = pre)
            /\ \A oc \in BOOLEAN :
                  LET c == checked_div(ty, pre, rhs, oc).out
                  IN  /\ (out.kind = "Panic") <=> (c.kind = "None")
                      /\ out.kind # "Panic" =>
                            /\ c = Some(Result)
                            /\ (Result.value * rhs.value) % m = pre.value

\* a zero dividend over a divisor without inverse still panics
C10_Witness ==
    /\ op.name = "div"
    /\ pre = MI(0, 4)
    /\ rhs = MI(2, 4)
    /\ out = Panic("value has no modular inverse")

\* C11: with a prime modulus p and residues a, b in [0, p), b != 0, division
\* is total: checked_div and checked_exact_div yield a quotient, and a / b
\* and exact_div(a, b) in any of their call forms return without faulting;
\* the quotient q is the residue with q * b = a (mod p).
IsPrime(p) == p >= 2 /\ \A d \in 2 .. (p - 1) : p % d # 0

ExactDivForms ==
    {"exact_div", "exact_div_move_ref", "exact_div_ref_move",
     "exact_div_ref_ref"}

PrimeDivision ==
    /\ op.name \in DivForms \cup ExactDivForms
                   \cup {"checked_div", "checked_exact_div"}
    /\ SameModulus
    /\ IsPrime(pre.modulus)
    /\ Canonical(pre) /\ Canonical(rhs)
    /\ rhs.value # 0

C11_PrimeDivisionTotal ==
    PrimeDivision =>
        /\ out.kind # "Panic"
        /\ out.kind # "None"
        /\ Canonical(Result)
        /\ Result.modulus = pre.modulus
        /\ (Result.value * rhs.value) % pre.modulus = pre.value

C11_Witness ==
    /\ PrimeDivision
    /\ op.name = "checked_exact_div"
    /\ pre.modulus = 5 /\ pre.value = 0 /\ rhs.value = 3
    /\ out.kind = "Some"

\* C12: for a modulus m >= 2 of a fixed-width type (up to the largest prime
\* of the width and beyond), every base b and every exponent e >= 0,
\* pow_modular_reduce(b, e, m) returns the canonical residue of b^e mod m,
\* which is 1 for e = 0 whatever the base; no squaring or multiplication
\* overflows, so the call returns on a build that traps overflow as well.
RECURSIVE PowMod(_, _, _)
PowMod(b, e, m) == IF e = 0 THEN 1 % m ELSE (PowMod(b, e - 1, m) * (b % m)) % m

C12_PowModularReduce ==
    (op.name \in {"pow_modular_reduce", "element_pow_usize"} /\ pre.modulus >= 2) =>
        /\ out.kind = "Return"
        /\ LET v == IF op.name = "element_pow_usize" THEN out.value.value
                    ELSE out.value
           IN  /\ v = PowMod(op.base, op.arg, pre.modulus)
               /\ 0 <= v /\ v < pre.modulus
               /\ op.arg = 0 => v = 1

C12_Witness ==
    /\ op.name = "pow_modular_reduce"
    /\ ty = "u8" /\ pre.modulus = LargestPrime("u8")
    /\ op.base = LargestPrime("u8") - 1 /\ op.arg = 5
    /\ out = Return(LargestPrime("u8") - 1)

\* C13: for each of +, -, * and / and operands of equal modulus, the six
\* call forms (assigning with an owned or a borrowed right operand, and
\* owned or borrowed left with owned or borrowed right) produce the same
\* result, a fault included; a borrowed left operand and a borrowed right
\* operand are unchanged after the call.
Outcome(res) ==
    IF res.out.kind = "Panic" THEN <<"Panic", res.out.msg>>
    ELSE <<"Value", IF res.out.kind = "Unit" THEN res.self ELSE res.out.value>>

SixForms(name, oc) ==
    IF name \in AddForms THEN
        {Outcome(add_assign(ty, pre, rhs, oc)), Outcome(add_assign_ref(ty, pre, rhs, oc)),
         Outcome(add(ty, pre, rhs, oc)), Outcome(add_move_ref(ty, pre, rhs, oc)),
         Outcome(add_ref_move(ty, pre, rhs, oc)), Outcome(add_ref_ref(ty, pre, rhs, oc))}
    ELSE IF name \in SubForms THEN
        {Outcome(sub_assign(ty, pre, rhs, oc)), Outcome(sub_assign_ref(ty, pre, rhs, oc)),
         Outcome(sub(ty, pre, rhs, oc)), Outcome(sub_move_ref(ty, pre, rhs, oc)),
         Outcome(sub_ref_move(ty, pre, rhs, oc)), Outcome(sub_ref_ref(ty, pre, rhs, oc))}
    ELSE IF name \in MulForms THEN
        {Outcome(mul_assign(ty, pre, rhs, oc)), Outcome(mul_assign_ref(ty, pre, rhs, oc)),
         Outcome(mul(ty, pre, rhs, oc)), Outcome(mul_move_ref(ty, pre, rhs, oc)),
         Outcome(mul_ref_move(ty, pre, rhs, oc)), Outcome(mul_ref_ref(ty, pre, rhs, oc))}
    ELSE
        {Outcome(div_assign(ty, pre, rhs, oc)), Outcome(div_assign_ref(ty, pre, rhs, oc)),
         Outcome(div(ty, pre, rhs, oc)), Outcome(div_move_ref(ty, pre, rhs, oc)),
         Outcome(div_ref_move(ty, pre, rhs, oc)), Outcome(div_ref_ref(ty, pre, rhs, oc))}

BorrowedLeft ==
    {"add_ref_move", "add_ref_ref", "sub_ref_move", "sub_ref_ref",
     "mul_ref_move", "mul_ref_ref", "div_ref_move", "div_ref_ref"}

BorrowedRight ==
    {"add_assign_ref", "add_move_ref", "add_ref_ref",
     "sub_assign_ref", "sub_move_ref", "sub_ref_ref",
     "mul_assign_ref", "mul_move_ref", "mul_ref_ref",
     "div_assign_ref", "div_move_ref", "div_ref_ref"}

FormsAgree ==
    (/\ op.name \in AddForms \cup SubForms \cup MulForms \cup DivForms
     /\ pre.modulus = rhs.modulus) =>
        /\ \E oc \in BOOLEAN :
              SixForms(op.name, oc) =
                  {IF out.kind = "Panic" THEN <<"Panic", out.msg>>
                   ELSE <<"Value", Result>>}
        /\ op.name \in BorrowedLeft => lhs = pre

C13_CallForms ==
    /\ []FormsAgree
    /\ [][op'.name \in BorrowedRight => rhs' = rhs]_vars

C13_Witness ==
    /\ op.name = "sub_ref_move"
    /\ pre.modulus = 5 /\ rhs.modulus = 5
    /\ pre.value = 1 /\ rhs.value = 3
    /\ out = Return(MI(3, 5))
    /\ lhs = pre

---------------------------------------------------------------------------
(* interval_arithmetic.rs: DyadicFractionInterval, the inclusive interval  *)
(* [lower_bound_numer / 2^log2_denom, upper_bound_numer / 2^log2_denom].   *)
(* Under the interval specifications lhs, rhs and pre hold intervals, op   *)
(* holds the call last made with the tuple of its scalar arguments, and    *)
(* out what it returned.                                                   *)

\* BigInt << k
shl(x, k) == x * Pow2(k)

\* BigInt >> k: the magnitude is shifted, and a negative value is rounded
\* down when a set bit was shifted out
shr(x, k) ==
    IF x >= 0 THEN quot(x, Pow2(k))
    ELSE -(quot(-x, Pow2(k)) + (IF rem(-x, Pow2(k)) # 0 THEN 1 ELSE 0))

\* Ratio::new(numer, denom), denom # 0: reduced, with a positive denominator
ratio_new(numer, denom) ==
    LET g == Gcd(Abs(numer), Abs(denom))
        sgn == IF denom < 0 THEN -1 ELSE 1
    IN  [numer |-> sgn * quot(numer, g), denom |-> sgn * quot(denom, g)]

\* a floor that truncates
RatioTrunc(r) == quot(r.numer, r.denom)

\* Ratio::floor().to_integer()
ratio_floor(r) ==
    IF r.numer < 0 THEN quot(r.numer - r.denom + 1, r.denom)
    ELSE quot(r.numer, r.denom)

\* a ceil that is always the floor plus one
CeilAsFloorPlusOne(r) == ratio_floor(r) + 1

\* Ratio::ceil().to_integer()
ratio_ceil(r) ==
    IF r.numer < 0 THEN quot(r.numer, r.denom)
    ELSE quot(r.numer + r.denom - 1, r.denom)

convert_log2_denom_floor(numer, old_log2_denom, new_log2_denom) ==
    IF new_log2_denom >= old_log2_denom
    THEN shl(numer, new_log2_denom - old_log2_denom)
    ELSE shr(numer, old_log2_denom - new_log2_denom)

\* a ceiling conversion that shifts without negating
ConvertCeilAsFloor(numer, old_log2_denom, new_log2_denom) ==
    convert_log2_denom_floor(numer, old_log2_denom, new_log2_denom)

convert_log2_denom_ceil(numer, old_log2_denom, new_log2_denom) ==
    IF new_log2_denom >= old_log2_denom
    THEN shl(numer, new_log2_denom - old_log2_denom)
    ELSE -shr(-numer, old_log2_denom - new_log2_denom)

\* DyadicFractionInterval::new
DFI(lower_bound_numer, upper_bound_numer, log2_denom) ==
    [lower_bound_numer |-> lower_bound_numer,
     upper_bound_numer |-> upper_bound_numer,
     log2_denom |-> log2_denom]

from_ratio_range(lower_bound, upper_bound, log2_denom) ==
    LET denom == shl(1, log2_denom)
    IN  DFI(ratio_floor(ratio_new(lower_bound.numer * denom, lower_bound.denom)),
            ratio_ceil(ratio_new(upper_bound.numer * denom, upper_bound.denom)),
            log2_denom)

from_ratio(ratio, log2_denom) ==
    LET r == ratio_new(shl(ratio.numer, log2_denom), ratio.denom)
    IN  DFI(ratio_floor(r), ratio_ceil(r), log2_denom)

from_dyadic_fraction(numer, log2_denom) == DFI(numer, numer, log2_denom)

zero(log2_denom) == DFI(0, 0, log2_denom)

one(log2_denom) == from_dyadic_fraction(shl(1, log2_denom), log2_denom)

\* a set_one that does not scale the numerator to the denominator
SetOneUnscaled(self) == DFI(1, 1, self.log2_denom)

set_one(self) ==
    DFI(shl(1, self.log2_denom), shl(1, self.log2_denom), self.log2_denom)

convert_log2_denom(self, log2_denom) ==
    DFI(convert_log2_denom_floor(self.lower_bound_numer, self.log2_denom, log2_denom),
        convert_log2_denom_ceil(self.upper_bound_numer, self.log2_denom, log2_denom),
        log2_denom)

\* an alignment that shifts the left numerators but keeps self.log2_denom
AlignKeepsDenom(self, rhs_) ==
    [lhs_lower |-> shl(self.lower_bound_numer,
                       IF rhs_.log2_denom >= self.log2_denom
                       THEN rhs_.log2_denom - self.log2_denom ELSE 0),
     lhs_upper |-> shl(self.upper_bound_numer,
                       IF rhs_.log2_denom >= self.log2_denom
                       THEN rhs_.log2_denom - self.log2_denom ELSE 0),
     rhs_lower |-> shl(rhs_.lower_bound_numer,
                       IF rhs_.log2_denom >= self.log2_denom
                       THEN 0 ELSE self.log2_denom - rhs_.log2_denom),
     rhs_upper |-> shl(rhs_.upper_bound_numer,
                       IF rhs_.log2_denom >= self.log2_denom
                       THEN 0 ELSE self.log2_denom - rhs_.log2_denom),
     log2_denom |-> self.log2_denom]

\* do_add_sub_mul_assign: both operands brought to the larger log2_denom
\* by left shifts, as the quadruple that is handed to op
do_add_sub_mul_assign(self, rhs_) ==
    IF rhs_.log2_denom >= self.log2_denom
    THEN LET shift_amount == rhs_.log2_denom - self.log2_denom
         IN  [lhs_lower |-> shl(self.lower_bound_numer, shift_amount),
              lhs_upper |-> shl(self.upper_bound_numer, shift_amount),
              rhs_lower |-> rhs_.lower_bound_numer,
              rhs_upper |-> rhs_.upper_bound_numer,
              log2_denom |-> rhs_.log2_denom]
    ELSE LET shift_amount == self.log2_denom - rhs_.log2_denom
         IN  [lhs_lower |-> self.lower_bound_numer,
              lhs_upper |-> self.upper_bound_numer,
              rhs_lower |-> shl(rhs_.lower_bound_numer, shift_amount),
              rhs_upper |-> shl(rhs_.upper_bound_numer, shift_amount),
              log2_denom |-> self.log2_denom]

do_add_assign(self, rhs_) ==
    LET a == do_add_sub_mul_assign(self, rhs_)
    IN  DFI(a.lhs_lower + a.rhs_lower, a.lhs_upper + a.rhs_upper, a.log2_denom)

\* a subtraction that pairs lower with lower and upper with upper
SubNoSwap(self, rhs_) ==
    LET a == do_add_sub_mul_assign(self, rhs_)
    IN  DFI(a.lhs_lower - a.rhs_lower, a.lhs_upper - a.rhs_upper, a.log2_denom)

\* rhs swapped and subtracted
do_sub_assign(self, rhs_) ==
    LET a == do_add_sub_mul_assign(self, rhs_)
    IN  DFI(a.lhs_lower - a.rhs_upper, a.lhs_upper - a.rhs_lower, a.log2_denom)

do_mul_assign_int(self, k) ==
    LET lo == IF k < 0 THEN self.upper_bound_numer ELSE self.lower_bound_numer
        hi == IF k < 0 THEN self.lower_bound_numer ELSE self.upper_bound_numer
    IN  DFI(lo * k, hi * k, self.log2_denom)

\* a scaling by a ratio that never swaps the bounds
MulRatioNoSwap(self, r) ==
    DFI(ratio_floor(ratio_new(r.numer * self.lower_bound_numer, r.denom)),
        ratio_ceil(ratio_new(r.numer * self.upper_bound_numer, r.denom)),
        self.log2_denom)

do_mul_assign_ratio(self, r) ==
    LET lo == IF r.numer < 0 THEN self.upper_bound_numer ELSE self.lower_bound_numer
        hi == IF r.numer < 0 THEN self.lower_bound_numer ELSE self.upper_bound_numer
    IN  DFI(ratio_floor(ratio_new(r.numer * lo, r.denom)),
            ratio_ceil(ratio_new(r.numer * hi, r.denom)),
            self.log2_denom)

\* one pass over the products still in bounds: the first is taken, and each
\* later one is swapped with the bound kept when swap(it, kept) holds;
\* yields the bound kept and the products left behind
RECURSIVE scan_bounds(_, _, _, _)
scan_bounds(kept, bounds, i, lower) ==
    IF i > Len(bounds) THEN [kept |-> kept, bounds |-> bounds]
    ELSE IF (lower /\ bounds[i] < kept) \/ (~lower /\ bounds[i] > kept)
    THEN scan_bounds(bounds[i], [bounds EXCEPT ![i] = kept], i + 1, lower)
    ELSE scan_bounds(kept, bounds, i + 1, lower)

\* a product that takes lower * lower and upper * upper as its bounds
MulEndpoints(self, rhs_) ==
    LET a == do_add_sub_mul_assign(self, rhs_)
    IN  DFI(shr(a.lhs_lower * a.rhs_lower, a.log2_denom),
            -shr(-(a.lhs_upper * a.rhs_upper), a.log2_denom),
            a.log2_denom)

do_mul_assign(self, rhs_) ==
    LET a == do_add_sub_mul_assign(self, rhs_)
        bounds == <<a.lhs_lower * a.rhs_lower, a.lhs_lower * a.rhs_upper,
                    a.lhs_upper * a.rhs_lower, a.lhs_upper * a.rhs_upper>>
        lower_bound == scan_bounds(bounds[1], Tail(bounds), 1, TRUE)
        rest == lower_bound.bounds
        upper_bound == scan_bounds(rest[1], Tail(rest), 1, FALSE)
    IN  DFI(shr(lower_bound.kept, a.log2_denom),
            -shr(-upper_bound.kept, a.log2_denom),
            a.log2_denom)

\* DivAssign<BigInt>: do_mul_assign_ratio(&Ratio::new(1, rhs))
div_assign_bigint(self, k) ==
    IF k = 0 THEN Fault("denominator == 0")
    ELSE Ok(do_mul_assign_ratio(self, ratio_new(1, k)))

\* DivAssign<Ratio<BigInt>>: do_mul_assign_ratio(&rhs.recip())
div_assign_ratio(self, r) ==
    IF r.numer = 0 THEN Fault("numerator == 0")
    ELSE Ok(do_mul_assign_ratio(self, ratio_new(r.denom, r.numer)))

contains_zero(self) == ~(self.lower_bound_numer > 0) /\ ~(self.upper_bound_numer < 0)

\* an into_square that squares the smaller magnitude for its lower bound
\* whether or not the interval contains zero
SquareNoZero(self) ==
    LET a == Abs(self.lower_bound_numer)
        b == Abs(self.upper_bound_numer)
        min == IF a > b THEN b ELSE a
        max == IF a > b THEN a ELSE b
    IN  DFI(shr(min * min, self.log2_denom), shr(max * max, self.log2_denom),
            self.log2_denom)

into_square(self) ==
    LET a == IF self.lower_bound_numer < 0 THEN -self.lower_bound_numer
             ELSE self.lower_bound_numer
        b == IF self.upper_bound_numer < 0 THEN -self.upper_bound_numer
             ELSE self.upper_bound_numer
        min == IF a > b THEN b ELSE a
        max == IF a > b THEN a ELSE b
    IN  DFI(IF contains_zero(self) THEN 0 ELSE shr(min * min, self.log2_denom),
            shr(max * max, self.log2_denom),
            self.log2_denom)

\* BigInt::sqrt of a non-negative value: the largest r with r * r <= x
bigint_sqrt(x) == CHOOSE r \in 0 .. x : r * r <= x /\ (r + 1) * (r + 1) > x

\* a square root whose upper bound is the floor root as well
SqrtNoRoundUp(radicand) ==
    IF radicand.lower_bound_numer < 0 \/ radicand.upper_bound_numer < 0
    THEN Fault("square root is imaginary")
    ELSE Ok(DFI(bigint_sqrt(shl(radicand.lower_bound_numer, radicand.log2_denom)),
                bigint_sqrt(shl(radicand.upper_bound_numer, radicand.log2_denom)),
                radicand.log2_denom))

do_sqrt(radicand) ==
    LET log2_denom == radicand.log2_denom
        scaled_lower == shl(radicand.lower_bound_numer, log2_denom)
        scaled_upper == shl(radicand.upper_bound_numer, log2_denom)
    IN  IF scaled_lower < 0 \/ scaled_upper < 0
        THEN Fault("square root is imaginary")
        ELSE LET root == bigint_sqrt(scaled_upper)
             IN  Ok(DFI(bigint_sqrt(scaled_lower),
                        IF root * root = scaled_upper THEN root ELSE root + 1,
                        log2_denom))

\* the loop of Pow::pow; yields retval_lower_bound_numer and
\* neg_retval_upper_bound_numer as they are when the loop is left
RECURSIVE pow_bounds(_, _, _, _, _, _)
pow_bounds(base_lower, base_upper, retval_lower, neg_retval_upper, exponent, log2_denom) ==
    LET odd == rem(exponent, 2) # 0
        retval_lower1 == IF odd THEN shr(retval_lower * base_lower, log2_denom)
                         ELSE retval_lower
        neg_retval_upper1 == IF odd THEN shr(neg_retval_upper * base_upper, log2_denom)
                             ELSE neg_retval_upper
        exponent1 == quot(exponent, 2)
    IN  IF exponent1 = 0
        THEN [retval_lower |-> retval_lower1, neg_retval_upper |-> neg_retval_upper1]
        ELSE pow_bounds(shr(shr(base_lower * base_lower, log2_denom), log2_denom),
                        -((-base_upper) * base_upper),
                        retval_lower1, neg_retval_upper1, exponent1, log2_denom)

\* Pow<E>::pow for DyadicFractionInterval
pow(self, exponent) ==
    IF exponent = 0 THEN set_one(self)
    ELSE IF exponent = 1 THEN self
    ELSE
    LET log2_denom == self.log2_denom
        abs_lower == Abs(self.lower_bound_numer)
        abs_upper == Abs(self.upper_bound_numer)
        even == rem(exponent, 2) = 0
        swapped0 == abs_lower < abs_upper
        lower_bound_numer_is_negative == ~even /\ self.lower_bound_numer < 0
        upper_bound_numer_is_negative == ~even /\ self.upper_bound_numer < 0
        bounds_swapped == ~even /\ swapped0
        base_upper == IF swapped0 THEN abs_lower ELSE abs_upper
        base_lower == IF even /\ contains_zero(self) THEN 0
                      ELSE IF swapped0 THEN abs_upper ELSE abs_lower
        r == pow_bounds(base_lower, base_upper, shl(1, log2_denom),
                        -shl(1, log2_denom), exponent, log2_denom)
        lo == IF bounds_swapped THEN -r.neg_retval_upper ELSE r.retval_lower
        hi == IF bounds_swapped THEN r.retval_lower ELSE -r.neg_retval_upper
    IN  DFI(IF lower_bound_numer_is_negative THEN -lo ELSE lo,
            IF upper_bound_numer_is_negative THEN -hi ELSE hi,
            log2_denom)

---------------------------------------------------------------------------
(* The constructors that round a rational onto the dyadic grid, on their   *)
(* own: one call on rationals drawn from a grid.                           *)

MaxRatioNumer == 5
MaxRatioDenom == 7
MaxLog2Denom == 3

\* the log2_denom of tests::test_from_ratio_range and test_from_ratio
TestLog2Denom == 8

Ratios ==
    {ratio_new(n, d) : n \in (-MaxRatioNumer) .. MaxRatioNumer, d \in 1 .. MaxRatioDenom}

Log2Denoms == (0 .. MaxLog2Denom) \cup {TestLog2Denom}

\* lo <= hi as rationals
RatioLeq(lo, hi) == lo.numer * hi.denom <= hi.numer * lo.denom

InitRatio ==
    /\ ty = "BigInt"
    /\ lhs = zero(0)
    /\ rhs = lhs
    /\ pre = lhs
    /\ op = CallOf("init", <<>>)
    /\ out = Unit

Built(name, arg, res) ==
    /\ op.name = "init"
    /\ op' = CallOf(name, arg)
    /\ lhs' = res
    /\ out' = Return(res)
    /\ pre' = lhs
    /\ UNCHANGED <<ty, rhs>>

FromRatioRange ==
    \E lo \in Ratios, hi \in Ratios, n \in Log2Denoms :
        /\ RatioLeq(lo, hi)
        /\ Built("from_ratio_range", <<lo, hi, n>>, from_ratio_range(lo, hi, n))

FromRatio ==
    \E r \in Ratios, n \in Log2Denoms :
        Built("from_ratio", <<r, n>>, from_ratio(r, n))

NextRatio ==
    \/ FromRatioRange
    \/ FromRatio

SpecRatio == InitRatio /\ [][NextRatio]_vars

\* C14: for rationals lo <= hi and n >= 0, from_ratio_range(lo, hi, n) has
\* log2_denom = n, lower_bound_numer = floor(lo * 2^n) and upper_bound_numer
\* = ceil(hi * 2^n): lower / 2^n <= lo and hi <= upper / 2^n, and neither
\* bound can be moved one grid step inward.
C14_FromRatioRange ==
    op.name = "from_ratio_range" =>
        LET lo == op.arg[1]
            hi == op.arg[2]
            n  == op.arg[3]
        IN  /\ lhs.log2_denom = n
            /\ lhs.lower_bound_numer * lo.denom <= lo.numer * Pow2(n)
            /\ (lhs.lower_bound_numer + 1) * lo.denom > lo.numer * Pow2(n)
            /\ lhs.upper_bound_numer * hi.denom >= hi.numer * Pow2(n)
            /\ (lhs.upper_bound_numer - 1) * hi.denom < hi.numer * Pow2(n)
            /\ lhs.lower_bound_numer = (lo.numer * Pow2(n)) \div lo.denom
            /\ lhs.upper_bound_numer = -(((-hi.numer) * Pow2(n)) \div hi.denom)

C14_Witness ==
    /\ op = CallOf("from_ratio_range", <<ratio_new(-1, 1), ratio_new(-5, 7), 8>>)
    /\ lhs = DFI(-256, -182, 8)

\* C15: for a rational r and n >= 0, from_ratio(r, n) has lower_bound_numer
\* = floor(r * 2^n) and upper_bound_numer = ceil(r * 2^n); their difference
\* is 0 or 1, and 0 exactly when r * 2^n is an integer.
C15_FromRatio ==
    op.name = "from_ratio" =>
        LET r == op.arg[1]
            n == op.arg[2]
            exact == (r.numer * Pow2(n)) % r.denom = 0
        IN  /\ lhs.log2_denom = n
            /\ lhs.lower_bound_numer = (r.numer * Pow2(n)) \div r.denom
            /\ lhs.upper_bound_numer = -(((-r.numer) * Pow2(n)) \div r.denom)
            /\ lhs.upper_bound_numer - lhs.lower_bound_numer \in {0, 1}
            /\ lhs.upper_bound_numer = lhs.lower_bound_numer <=> exact

C15_Witness ==
    /\ op = CallOf("from_ratio", <<ratio_new(-2, 3), 8>>)
    /\ lhs = DFI(-171, -170, 8)

---------------------------------------------------------------------------
(* Interval arithmetic: a pair of intervals built by the constructors and  *)
(* the operations applied to lhs, once (SpecInterval), in any sequence     *)
(* while the numerators stay small (SpecIntervalSeq), or as a sequence of  *)
(* conversions with rhs keeping the interval first built (SpecConvert).    *)

MaxNumer == 2
MaxLog2 == 2

\* every lower <= upper on the grid: from_ratio_range of the two dyadic
\* fractions, which from_ratio, from_dyadic_fraction, zero and one also yield
Intervals ==
    {from_ratio_range(ratio_new(l, Pow2(n)), ratio_new(u, Pow2(n)), n) :
        <<l, u, n>> \in {t \in ((-MaxNumer) .. MaxNumer) \X ((-MaxNumer) .. MaxNumer)
                                  \X (0 .. MaxLog2) : t[1] <= t[2]}}

Scalars == (-MaxNumer) .. MaxNumer

InitInterval ==
    /\ ty = "BigInt"
    /\ lhs \in Intervals
    /\ rhs \in Intervals
    /\ pre = lhs
    /\ op = CallOf("init", <<>>)
    /\ out = Unit

\* a call on lhs: r is Ok(the interval lhs becomes) or the Fault
ICall(name, arg, r) ==
    /\ pre' = lhs
    /\ op' = CallOf(name, arg)
    /\ lhs' = IF r.ok THEN r.v ELSE lhs
    /\ out' = IF r.ok THEN Unit ELSE Panic(r.msg)
    /\ UNCHANGED <<ty, rhs>>

\* lhs += rhs, lhs -= rhs, lhs *= rhs
IntervalStep ==
    \/ ICall("add_assign", <<>>, Ok(do_add_assign(lhs, rhs)))
    \/ ICall("sub_assign", <<>>, Ok(do_sub_assign(lhs, rhs)))
    \/ ICall("mul_assign", <<>>, Ok(do_mul_assign(lhs, rhs)))

\* lhs += k, lhs -= k, lhs *= k, lhs /= k for a BigInt or a Ratio<BigInt>:
\* a BigInt is added after rhs <<= self.log2_denom, a Ratio as
\* from_ratio(rhs, self.log2_denom)
ScalarStep ==
    \/ \E k \in Scalars :
          \/ ICall("add_assign_bigint", <<k>>,
                   Ok(DFI(lhs.lower_bound_numer + shl(k, lhs.log2_denom),
                          lhs.upper_bound_numer + shl(k, lhs.log2_denom),
                          lhs.log2_denom)))
          \/ ICall("sub_assign_bigint", <<k>>,
                   Ok(DFI(lhs.lower_bound_numer - shl(k, lhs.log2_denom),
                          lhs.upper_bound_numer - shl(k, lhs.log2_denom),
                          lhs.log2_denom)))
          \/ ICall("mul_assign_bigint", <<k>>, Ok(do_mul_assign_int(lhs, k)))
          \/ ICall("div_assign_bigint", <<k>>, div_assign_bigint(lhs, k))
    \/ \E r \in {ratio_new(n, d) : n \in Scalars, d \in 1 .. MaxNumer} :
          \/ ICall("add_assign_ratio", <<r>>,
                   Ok(do_add_assign(lhs, from_ratio(r, lhs.log2_denom))))
          \/ ICall("sub_assign_ratio", <<r>>,
                   Ok(do_sub_assign(lhs, from_ratio(r, lhs.log2_denom))))
          \/ ICall("mul_assign_ratio", <<r>>, Ok(do_mul_assign_ratio(lhs, r)))
          \/ ICall("div_assign_ratio", <<r>>, div_assign_ratio(lhs, r))

ConvertStep ==
    \E n \in 0 .. MaxLog2 :
        ICall("convert_log2_denom", <<n>>, Ok(convert_log2_denom(lhs, n)))

SquareStep == ICall("square_assign", <<>>, Ok(into_square(lhs)))

SqrtStep == ICall("sqrt_assign", <<>>, do_sqrt(lhs))

PowStep ==
    \E e \in 0 .. MaxExponent : ICall("pow", <<e>>, Ok(pow(lhs, e)))

NextInterval ==
    \/ op.name = "init" /\ IntervalStep
    \/ op.name = "init" /\ ScalarStep
    \/ op.name = "init" /\ ConvertStep
    \/ op.name = "init" /\ SquareStep
    \/ op.name = "init" /\ SqrtStep
    \/ op.name = "init" /\ PowStep

SpecInterval == InitInterval /\ [][NextInterval]_vars

\* the call returned and left numerators that are still small
Live ==
    /\ out.kind # "Panic"
    /\ Abs(lhs.lower_bound_numer) <= MaxNumer
    /\ Abs(lhs.upper_bound_numer) <= MaxNumer
    /\ lhs.log2_denom <= MaxLog2

NextIntervalSeq ==
    \/ Live /\ IntervalStep
    \/ Live /\ ScalarStep
    \/ Live /\ ConvertStep
    \/ Live /\ SquareStep
    \/ Live /\ SqrtStep
    \/ Live /\ PowStep

SpecIntervalSeq == InitInterval /\ [][NextIntervalSeq]_vars

InitConvert ==
    /\ InitInterval
    /\ rhs = lhs

NextConvert == ConvertStep

SpecConvert == InitConvert /\ [][NextConvert]_vars

\* the integer power a^e
RECURSIVE IntPow(_, _)
IntPow(a, e) == IF e = 0 THEN 1 ELSE a * IntPow(a, e - 1)

Ordered(x) == x.lower_bound_numer <= x.upper_bound_numer

\* C16: starting from intervals built by the constructors, after any
\* sequence of add, sub, mul, scalar mul and div, convert_log2_denom, square,
\* sqrt and pow the interval held has lower_bound_numer <= upper_bound_numer.
C16_Ordered == Ordered(lhs)

\* C17: for an interval I with lower <= upper and an unsigned exponent e,
\* pow(I, e) contains x^e for every real x in I.  x^e is monotone on each
\* side of zero, so it is enough that (a / 2^n)^e lies between the bounds
\* for every numerator a from lower to upper, zero and the ends included.
C17_PowContains ==
    (op.name = "pow" /\ Ordered(pre)) =>
        LET n == pre.log2_denom
            e == op.arg[1]
        IN  /\ lhs.log2_denom = n
            /\ \A a \in pre.lower_bound_numer .. pre.upper_bound_numer :
                  /\ lhs.lower_bound_numer * Pow2(n * e) <= IntPow(a, e) * Pow2(n)
                  /\ IntPow(a, e) * Pow2(n) <= lhs.upper_bound_numer * Pow2(n * e)

\* C18: for an interval I with lower <= upper at denominator n, square(I)
\* is a non-negative interval at denominator n that contains x^2 for every
\* x in I; when I does not straddle zero its lower numerator is
\* floor(min(|lower|, |upper|)^2 / 2^n) and its upper numerator is
\* ceil(max(|lower|, |upper|)^2 / 2^n).
C18_Square ==
    (op.name = "square_assign" /\ Ordered(pre)) =>
        LET n == pre.log2_denom
            a == Abs(pre.lower_bound_numer)
            b == Abs(pre.upper_bound_numer)
            min == IF a < b THEN a ELSE b
            max == IF a < b THEN b ELSE a
        IN  /\ lhs.log2_denom = n
            /\ 0 <= lhs.lower_bound_numer
            /\ \A x \in pre.lower_bound_numer .. pre.upper_bound_numer :
                  /\ lhs.lower_bound_numer * Pow2(n) <= x * x
                  /\ x * x <= lhs.upper_bound_numer * Pow2(n)
            /\ ~(pre.lower_bound_numer <= 0 /\ 0 <= pre.upper_bound_numer) =>
                  /\ lhs.lower_bound_numer = (min * min) \div Pow2(n)
                  /\ lhs.upper_bound_numer = -((-(max * max)) \div Pow2(n))

\* C19: after any sequence of convert_log2_denom calls the interval held
\* contains every real the interval first built contained; a conversion to
\* new_n >= n multiplies both numerators by 2^(new_n - n), one to new_n < n
\* sets lower to floor(lower / 2^(n - new_n)) and upper to
\* ceil(upper / 2^(n - new_n)), for negative numerators as well.
C19_ConvertContains ==
    /\ lhs.lower_bound_numer * Pow2(rhs.log2_denom)
           <= rhs.lower_bound_numer * Pow2(lhs.log2_denom)
    /\ rhs.upper_bound_numer * Pow2(lhs.log2_denom)
           <= lhs.upper_bound_numer * Pow2(rhs.log2_denom)
    /\ op.name = "convert_log2_denom" =>
          LET n == pre.log2_denom
              new_n == op.arg[1]
          IN  /\ lhs.log2_denom = new_n
              /\ new_n >= n =>
                    /\ lhs.lower_bound_numer = pre.lower_bound_numer * Pow2(new_n - n)
                    /\ lhs.upper_bound_numer = pre.upper_bound_numer * Pow2(new_n - n)
              /\ new_n < n =>
                    /\ lhs.lower_bound_numer = pre.lower_bound_numer \div Pow2(n - new_n)
                    /\ lhs.upper_bound_numer =
                           (pre.upper_bound_numer + Pow2(n - new_n) - 1) \div Pow2(n - new_n)

C19_Witness ==
    /\ op = CallOf("convert_log2_denom", <<0>>)
    /\ rhs = DFI(-1, -1, 1)
    /\ pre = DFI(-2, -2, 2)
    /\ lhs = DFI(-1, 0, 0)

\* C20: for an interval with lower <= 0 <= upper, at any log2_denom, square
\* returns lower_bound_numer exactly 0.
C20_SquareStraddling ==
    (/\ op.name = "square_assign"
     /\ pre.lower_bound_numer <= 0
     /\ 0 <= pre.upper_bound_numer) => lhs.lower_bound_numer = 0

C20_Witness ==
    /\ op.name = "square_assign"
    /\ pre = DFI(-1, 2, 1)
    /\ lhs = DFI(0, 2, 1)

\* C21: for every interval I, pow(I, 0) is the point interval 1 at I's
\* log2_denom (both numerators equal 2^log2_denom), and pow(I, 1) returns I
\* unchanged.
C21_PowZeroOne ==
    op.name = "pow" =>
        /\ op.arg[1] = 0 =>
              /\ lhs.log2_denom = pre.log2_denom
              /\ lhs.lower_bound_numer = Pow2(pre.log2_denom)
              /\ lhs.upper_bound_numer = Pow2(pre.log2_denom)
        /\ op.arg[1] = 1 => lhs = pre

C21_Witness ==
    /\ op = CallOf("pow", <<0>>)
    /\ pre = DFI(-1, 2, 2)
    /\ lhs = DFI(4, 4, 2)

\* the calls with an interval operand, and the other arithmetic calls
IntervalOperandCalls == {"add_assign", "sub_assign", "mul_assign"}

ScalarAndUnaryCalls ==
    {"add_assign_bigint", "sub_assign_bigint", "mul_assign_bigint",
     "div_assign_bigint", "add_assign_ratio", "sub_assign_ratio",
     "mul_assign_ratio", "div_assign_ratio", "square_assign", "sqrt_assign",
     "pow"}

Aligned ==
    LET n == IF rhs.log2_denom >= pre.log2_denom THEN rhs.log2_denom
             ELSE pre.log2_denom
    IN  [n |-> n,
         al |-> pre.lower_bound_numer * Pow2(n - pre.log2_denom),
         au |-> pre.upper_bound_numer * Pow2(n - pre.log2_denom),
         bl |-> rhs.lower_bound_numer * Pow2(n - rhs.log2_denom),
         bu |-> rhs.upper_bound_numer * Pow2(n - rhs.log2_denom)]

\* C25: for intervals a, b with lower <= upper, a * b has log2_denom n =
\* max of the two and, with the numerators at 2^n, lower = floor(min(P) / 2^n)
\* and upper = ceil(max(P) / 2^n) for the set P of the four products of a
\* bound of a with a bound of b; the scan finds the true minimum and maximum
\* in every sign case, so the result contains x * y for x in a, y in b.
C25_Mul ==
    (op.name = "mul_assign" /\ Ordered(pre) /\ Ordered(rhs)) =>
        LET g == Aligned
            P == {g.al * g.bl, g.al * g.bu, g.au * g.bl, g.au * g.bu}
            minP == CHOOSE p \in P : \A q \in P : p <= q
            maxP == CHOOSE p \in P : \A q \in P : q <= p
        IN  /\ lhs.log2_denom = g.n
            /\ lhs.lower_bound_numer = minP \div Pow2(g.n)
            /\ lhs.upper_bound_numer = -((-maxP) \div Pow2(g.n))
            /\ \A x \in g.al .. g.au, y \in g.bl .. g.bu :
                  /\ lhs.lower_bound_numer * Pow2(g.n) <= x * y
                  /\ x * y <= lhs.upper_bound_numer * Pow2(g.n)
            /\ Ordered(lhs)

C25_Witness ==
    /\ op.name = "mul_assign"
    /\ pre = DFI(-2, 1, 1)
    /\ rhs = DFI(-1, 2, 2)
    /\ lhs = DFI(-2, 1, 2)

\* C26: with both operands at n = max of the two log2_denom, a + b has the
\* numerators (a.lower + b.lower, a.upper + b.upper) and a - b has
\* (a.lower - b.upper, a.upper - b.lower), at log2_denom n and without
\* rounding; the result contains x + y (x - y) for x in a, y in b and keeps
\* lower <= upper.
C26_AddSub ==
    (op.name \in {"add_assign", "sub_assign"} /\ Ordered(pre) /\ Ordered(rhs)) =>
        LET g == Aligned
        IN  /\ lhs.log2_denom = g.n
            /\ op.name = "add_assign" =>
                  /\ lhs.lower_bound_numer = g.al + g.bl
                  /\ lhs.upper_bound_numer = g.au + g.bu
                  /\ \A x \in g.al .. g.au, y \in g.bl .. g.bu :
                        /\ lhs.lower_bound_numer <= x + y
                        /\ x + y <= lhs.upper_bound_numer
            /\ op.name = "sub_assign" =>
                  /\ lhs.lower_bound_numer = g.al - g.bu
                  /\ lhs.upper_bound_numer = g.au - g.bl
                  /\ \A x \in g.al .. g.au, y \in g.bl .. g.bu :
                        /\ lhs.lower_bound_numer <= x - y
                        /\ x - y <= lhs.upper_bound_numer
            /\ Ordered(lhs)

C26_Witness ==
    /\ op.name = "sub_assign"
    /\ pre = DFI(-1, 2, 0)
    /\ rhs = DFI(-2, 1, 1)
    /\ lhs = DFI(-3, 6, 1)

\* the scalar of the last call as the factor p / q, q > 0, that the bounds
\* are multiplied by: k, 1 / k, r or 1 / r
Factor ==
    LET a == op.arg[1]
        sgn(x) == IF x < 0 THEN -1 ELSE 1
    IN  IF op.name = "mul_assign_bigint" THEN [p |-> a, q |-> 1]
        ELSE IF op.name = "div_assign_bigint" THEN [p |-> sgn(a), q |-> Abs(a)]
        ELSE IF op.name = "mul_assign_ratio" THEN [p |-> a.numer, q |-> a.denom]
        ELSE [p |-> sgn(a.numer) * a.denom, q |-> Abs(a.numer)]

ScalarMulDiv ==
    /\ op.name \in {"mul_assign_bigint", "div_assign_bigint",
                    "mul_assign_ratio", "div_assign_ratio"}
    /\ Ordered(pre)
    /\ IF op.name \in {"mul_assign_ratio", "div_assign_ratio"}
       THEN op.arg[1].numer # 0
       ELSE op.arg[1] # 0

\* C27: for an interval I with lower <= upper and a nonzero scalar k
\* (integer or rational, of either sign), I * k and I / k return an interval
\* at I's log2_denom with lower <= upper that contains k * x (x / k) for
\* every x in I: the bounds are swapped for a negative k, the new lower is
\* rounded down and the new upper rounded up, and multiplication by an
\* integer is exact.
C27_ScalarMulDiv ==
    ScalarMulDiv =>
        LET f == Factor
            lo == IF f.p < 0 THEN pre.upper_bound_numer ELSE pre.lower_bound_numer
            hi == IF f.p < 0 THEN pre.lower_bound_numer ELSE pre.upper_bound_numer
        IN  /\ out.kind # "Panic"
            /\ lhs.log2_denom = pre.log2_denom
            /\ Ordered(lhs)
            /\ lhs.lower_bound_numer = (f.p * lo) \div f.q
            /\ lhs.upper_bound_numer = -((-(f.p * hi)) \div f.q)
            /\ \A x \in pre.lower_bound_numer .. pre.upper_bound_numer :
                  /\ lhs.lower_bound_numer * f.q <= f.p * x
                  /\ f.p * x <= lhs.upper_bound_numer * f.q
            /\ op.name = "mul_assign_bigint" =>
                  /\ lhs.lower_bound_numer = f.p * lo
                  /\ lhs.upper_bound_numer = f.p * hi

C27_Witness ==
    /\ op = CallOf("div_assign_bigint", <<-2>>)
    /\ pre = DFI(-1, 2, 1)
    /\ lhs = DFI(-1, 1, 1)

\* C28: for an interval I with 0 <= lower <= upper at log2_denom n, sqrt(I)
\* has, at the same n, lower = isqrt(lower * 2^n) and upper = isqrt(upper *
\* 2^n), plus 1 unless that root squares back to upper * 2^n; the result has
\* lower <= upper and contains sqrt(x) for every x in I.
C28_Sqrt ==
    (op.name = "sqrt_assign" /\ 0 <= pre.lower_bound_numer /\ Ordered(pre)) =>
        LET n == pre.log2_denom
            sl == pre.lower_bound_numer * Pow2(n)
            su == pre.upper_bound_numer * Pow2(n)
            L == lhs.lower_bound_numer
            U == lhs.upper_bound_numer
        IN  /\ out.kind # "Panic"
            /\ lhs.log2_denom = n
            /\ 0 <= L /\ L * L <= sl /\ sl < (L + 1) * (L + 1)
            /\ 0 <= U /\ su <= U * U
            /\ U > 0 => (U - 1) * (U - 1) < su
            /\ Ordered(lhs)

C28_Witness ==
    /\ op.name = "sqrt_assign"
    /\ pre = DFI(1, 2, 1)
    /\ lhs = DFI(1, 2, 1)

\* C23: for every element with modulus m >= 1 and every multiplier k >= 0,
\* also k >= m and k above the greatest value of the element type,
\* mul_element_by_usize and mul_assign_element_by_usize yield the element
\* with value (value * k) mod m and the modulus unchanged, without a panic:
\* the multiplier is reduced modulo m before the modular multiplication.
C23_MulByUsize ==
    pre.modulus >= 1 =>
        LET product == MI((pre.value * op.arg) % pre.modulus, pre.modulus)
        IN  /\ op.name = "mul_element_by_usize" =>
                  out = Return(product) /\ lhs = pre
            /\ op.name = "mul_assign_element_by_usize" =>
                  out = Unit /\ lhs = product

C23_Witness ==
    /\ ty = "u8"
    /\ op.name = "mul_assign_element_by_usize"
    /\ op.arg = 256
    /\ pre = MI(250, 251)
    /\ lhs = MI(246, 251)

\* C24: the adapter's divisor is always the identity: coefficient_to_element,
\* coefficients_to_elements and get_reduced_divisor return the values they
\* were given, unchanged, paired with the divisor one; reduce_divisor leaves
\* every element unchanged; make_coefficient(element, d) returns the element
\* for any d; divisor_pow_usize returns one; hence
\* make_coefficient(coefficient_to_element(c)) = c.
C24_DivisorIsIdentity ==
    /\ op.name = "coefficient_to_element" => out = Return(<<pre, DivisorIsOne>>)
    /\ op.name \in {"coefficients_to_elements", "get_reduced_divisor"} =>
          out = Return(<<(<<pre, rhs>>), DivisorIsOne>>)
    /\ op.name = "reduce_divisor" => out = Unit
    /\ op.name = "make_coefficient" => out = Return(pre)
    /\ op.name = "divisor_pow_usize" => out = Return(DivisorIsOne)
    /\ op.name = "make_coefficient_of_element" => out = Return(pre)
    /\ op.name \in {"coefficient_to_element", "coefficients_to_elements",
                    "get_reduced_divisor", "reduce_divisor", "make_coefficient",
                    "divisor_pow_usize", "make_coefficient_of_element"} =>
          lhs = pre

C24_Witness ==
    /\ op.name = "make_coefficient_of_element"
    /\ pre = MI(3, 5)
    /\ out = Return(MI(3, 5))

\* C29 as stated: checked_exact_div_assign(self, rhs) returns Err(()) and
\* leaves self exactly as it was when rhs has no inverse or the moduli
\* differ; otherwise it returns Ok(()) with self replaced by self *
\* inverse(rhs); rhs is never modified.
C29_CheckedExactDivAssign ==
    /\ [](op.name = "checked_exact_div_assign" =>
            LET noinv == rhs.value = 0 \/ Gcd(Abs(rhs.value), rhs.modulus) # 1
            IN  IF noinv \/ pre.modulus # rhs.modulus
                THEN out.kind = "Err" /\ lhs = pre
                ELSE /\ out.kind = "Ok"
                     /\ \A oc \in BOOLEAN :
                           mul(ty, pre, inverse(ty, rhs).out.value, oc).out = Return(lhs))
    /\ [][op'.name = "checked_exact_div_assign" => rhs' = rhs]_vars

\* the adapter methods that produce an element
ElementProducers ==
    {"make_zero_element", "make_one_element", "set_element_one",
     "negate_element", "mul_element_by_usize", "mul_assign_element_by_usize",
     "element_pow_usize"}

\* C30 as stated: for every modulus m >= 1, m = 1 included, every element
\* the adapter produces (make_zero_element, make_one_element,
\* set_element_one, negate_element, mul_element_by_usize, element_pow_usize
\* for every exponent, 0 included) has its value in [0, m); so
\* element_pow_usize(x, 0) equals make_one_element(x), and is_element_one
\* gives the same answer on both.
C30_ElementsCanonical ==
    (op.name \in ElementProducers /\ pre.modulus >= 1) =>
        /\ Canonical(Result)
        /\ (op.name = "element_pow_usize" /\ op.arg = 0) =>
              /\ out = Return(make_one_element(ty, pre))
              /\ is_element_one(out.value) = is_element_one(make_one_element(ty, pre))

====
